---------------------------- MODULE Spec2Model ----------------------------
(***************************************************************************)
(* Model of the stock_tracker crawl-enrich-persist pipeline.               *)
(*                                                                         *)
(*   spiders/sec_fillings.py    SecFilingsSpider  (filing index -> reports) *)
(*   spiders/yahoo_news_rss.py  YahooNewsRSSSpider (feed -> articles)       *)
(*   pipelines.py               OpenAIPipeline, DuckDBPipeline,             *)
(*                              ParquetPipeline                             *)
(*   settings.py                CONCURRENT_REQUESTS, CLOSESPIDER_ITEMCOUNT, *)
(*                              ITEM_PIPELINES                              *)
(*                                                                         *)
(* Python values are tagged records: a str, a float (in tenths, so that    *)
(* 0.5 is 5 and -1.0 is -10), a date, or None (which also stands for the   *)
(* NaN / NaT / NULL that pandas and DuckDB use for a missing value).       *)
(* An item is a function from the field names that are set to values.      *)
(***************************************************************************)
EXTENDS Integers, Sequences, FiniteSets, TLC

(***************************************************************************)
(* Bounds of the model.                                                    *)
(***************************************************************************)
\* Longest filing index / feed listing a crawl is given.
MaxEntries == 3
\* Largest CLOSESPIDER_ITEMCOUNT a run is started with.
MaxLimit == 2
\* Most items handed to the item pipelines when they are driven directly.
MaxItems == 2
\* Most runs that share one store and one archive directory, and most
\* seconds the wall clock is followed for.
MaxRuns == 2

(***************************************************************************)
(* Program constants.                                                      *)
(***************************************************************************)
\* settings.py: CONCURRENT_REQUESTS = 8 (run_spider passes the same value).
CONCURRENT_REQUESTS == 8
\* pipelines.py: len(text_content.strip()) < 10
MinTextLen == 10

(***************************************************************************)
(* Values.                                                                 *)
(***************************************************************************)
None == [t |-> "None", v |-> ""]
Str(s) == [t |-> "str", v |-> s]
Float(n) == [t |-> "float", v |-> n]
Date(s) == [t |-> "date", v |-> s]

IsNone(x) == x.t = "None"
IsStr(x) == x.t = "str"
IsFloat(x) == x.t = "float"

\* dict.get(key): the value, or None when the key is not set.
Get(item, k) == IF k \in DOMAIN item THEN item[k] ELSE None
\* dict.get(key, default)
GetD(item, k, d) == IF k \in DOMAIN item THEN item[k] ELSE d
\* item[key] = value
Put(item, k, x) == (k :> x) @@ item

\* Python truth value of a field: None, '' and 0.0 are false.
Truthy(x) ==
    CASE IsNone(x) -> FALSE
      [] IsStr(x) -> x.v # ""
      [] IsFloat(x) -> x.v # 0
      [] OTHER -> TRUE

\* What an f-string prints for a value.
Format(x) == IF IsNone(x) THEN "None" ELSE x.v

RECURSIVE LStrip(_)
LStrip(s) ==
    IF Len(s) > 0 /\ SubSeq(s, 1, 1) = " " THEN LStrip(SubSeq(s, 2, Len(s))) ELSE s

RECURSIVE RStrip(_)
RStrip(s) ==
    IF Len(s) > 0 /\ SubSeq(s, Len(s), Len(s)) = " "
    THEN RStrip(SubSeq(s, 1, Len(s) - 1))
    ELSE s

\* str.strip()
Strip(s) == RStrip(LStrip(s))

(***************************************************************************)
(* EnrichmentStage: OpenAIPipeline.process_item.                           *)
(***************************************************************************)
\* The text sent for analysis: report_text, else article_text, else the
\* f-string of title and summary.  The separator of the source is a space, a
\* three-character dash sequence and a space; "---" stands for the three.
TextContent(item) ==
    IF Truthy(Get(item, "report_text")) THEN Get(item, "report_text").v
    ELSE IF Truthy(Get(item, "article_text")) THEN Get(item, "article_text").v
    ELSE Format(GetD(item, "title", Str(""))) \o " --- "
            \o Format(GetD(item, "summary", Str("")))

\* Mutant of NoMeaningfulText: only the empty text is refused.
NoMeaningfulTextEmptyOnly(text) == text = ""

\* if not text_content or len(text_content.strip()) < 10: return item
NoMeaningfulText(text) == text = "" \/ Len(Strip(text)) < MinTextLen

\* Strings float() accepts, with their value in tenths.
NumericStrings == ("0.5" :> 5) @@ ("-2.0" :> -20)

\* float(x) returns (a float or a numeric string); it raises on anything else.
FloatOk(x) == IsFloat(x) \/ (IsStr(x) /\ x.v \in DOMAIN NumericStrings)
PyFloat(x) == IF IsFloat(x) THEN x ELSE Float(NumericStrings[x.v])

\* The except branch: all three fields are set to the fallback values.
ErrorInAnalysis(item) ==
    Put(Put(Put(item, "summary_ai", Str("Error in analysis.")),
            "sentiment", Str("Unknown")),
        "sentiment_score", Float(0))

\* A response of the analysis service: the call raised ("error"), the content
\* is not JSON ("invalid"), is JSON but no object ("list"), or is an object.
Response(kind, obj) == [kind |-> kind, obj |-> obj]
NoObject == [k \in {} |-> None]

\* The try block on a response: json.loads, three analysis.get with their
\* defaults, float() of the score; any exception leads to the except branch.
ApplyAnalysis(item, resp) ==
    IF resp.kind # "object" THEN ErrorInAnalysis(item)
    ELSE LET analysis == resp.obj
             score == GetD(analysis, "sentiment_score", Float(0))
         IN  IF ~FloatOk(score) THEN ErrorInAnalysis(item)
             ELSE Put(Put(Put(item,
                        "summary_ai", GetD(analysis, "summary", Str(""))),
                        "sentiment", GetD(analysis, "sentiment", Str("Unknown"))),
                        "sentiment_score", PyFloat(score))

\* Whether process_item reaches openai.chat.completions.create for the item.
CallsService(key, item) == key /\ ~NoMeaningfulText(TextContent(item))

\* OpenAIPipeline.process_item as a function of the item and the response.
Enrich(key, item, resp) ==
    IF ~key THEN item
    ELSE IF NoMeaningfulText(TextContent(item)) THEN item
    ELSE ApplyAnalysis(item, resp)

(***************************************************************************)
(* PersistenceStage: the reconciliation of DuckDBPipeline.close_spider and *)
(* the raw frames of ParquetPipeline.close_spider.                         *)
(***************************************************************************)
sec_columns ==
    << "cik", "ticker", "company_name", "form", "filing_date", "accession_no",
       "primary_doc", "report_url", "report_text", "summary_ai", "sentiment",
       "sentiment_score" >>

news_columns ==
    << "ticker", "source", "title", "link", "published", "summary",
       "article_text", "summary_ai", "sentiment", "sentiment_score" >>

Range(s) == { s[i] : i \in DOMAIN s }

\* Mutant of sec_schema: the table lists ticker before cik.
sec_schema_TickerFirst ==
    << "ticker", "cik", "company_name", "form", "filing_date", "accession_no",
       "primary_doc", "report_url", "report_text", "summary_ai", "sentiment",
       "sentiment_score" >>

\* The columns of the two tables in the order of CREATE TABLE.
sec_schema ==
    << "cik", "ticker", "company_name", "form", "filing_date", "accession_no",
       "primary_doc", "report_url", "report_text", "summary_ai", "sentiment",
       "sentiment_score" >>

news_schema ==
    << "ticker", "source", "title", "link", "published", "summary",
       "article_text", "summary_ai", "sentiment", "sentiment_score" >>

\* SELECT * FROM <frame> as the source of an INSERT: the k-th column of the
\* frame is stored in the k-th column of the table, whatever their names.
SelectStar(frame, columns, schema) ==
    [i \in DOMAIN frame |->
        [c \in Range(schema) |->
            frame[i][columns[CHOOSE k \in DOMAIN schema : schema[k] = c]]]]

\* if "form" in item: SEC filing, else: news
IsFiling(item) == "form" \in DOMAIN item
SecItems(items) == SelectSeq(items, IsFiling)
IsNews(item) == ~IsFiling(item)
NewsItems(items) == SelectSeq(items, IsNews)

\* Mutant of LacksForm: the news comprehension lost its condition.
LacksFormUnfiltered(item) == TRUE

\* ParquetPipeline.close_spider partitions with two list comprehensions:
\* [item ... if "form" in item] and [item ... if "form" not in item].
HasForm(item) == "form" \in DOMAIN item
LacksForm(item) == ~("form" \in DOMAIN item)
ParquetSecItems(items) == SelectSeq(items, HasForm)
ParquetNewsItems(items) == SelectSeq(items, LacksForm)

Digit(i) == SubSeq("0123456789", i + 1, i + 1)

\* str(n) of a non-negative int.
RECURSIVE IntToStr(_)
IntToStr(n) == IF n < 10 THEN Digit(n) ELSE IntToStr(n \div 10) \o Digit(n % 10)

\* str.zfill(width): zeros on the left up to the width, nothing cut off.
RECURSIVE ZFill(_, _)
ZFill(s, width) == IF Len(s) >= width THEN s ELSE ZFill("0" \o s, width)

\* int(s) of a string of decimal digits; -1 for any other string.
RECURSIVE ToInt(_)
ToInt(s) ==
    LET last == SubSeq(s, Len(s), Len(s))
        rest == SubSeq(s, 1, Len(s) - 1)
    IN  IF s = "" \/ \A d \in 0..9 : Digit(d) # last THEN -1
        ELSE IF rest = "" THEN CHOOSE d \in 0..9 : Digit(d) = last
        ELSE IF ToInt(rest) < 0 THEN -1
        ELSE 10 * ToInt(rest) + (CHOOSE d \in 0..9 : Digit(d) = last)

\* The calendar date an ISO string YYYY-MM-DD denotes, << >> when it
\* denotes none.
ParseDate(s) ==
    LET y == ToInt(SubSeq(s, 1, 4))
        mo == ToInt(SubSeq(s, 6, 7))
        d == ToInt(SubSeq(s, 9, 10))
        leap == y % 4 = 0 /\ (y % 100 # 0 \/ y % 400 = 0)
        days == IF mo = 2 THEN (IF leap THEN 29 ELSE 28)
                ELSE IF mo \in {4, 6, 9, 11} THEN 30 ELSE 31
    IN  IF /\ Len(s) = 10
           /\ SubSeq(s, 5, 5) = "-"
           /\ SubSeq(s, 8, 8) = "-"
           /\ y >= 1
           /\ mo \in 1..12
           /\ d \in 1..days
        THEN << y, mo, d >>
        ELSE << >>

\* What pd.to_datetime makes of a string: the date of YYYY-MM-DD, the UTC
\* instant of YYYY-MM-DDTHH:MM:SS+00:00, "" (NaT) for a string that is
\* neither; a date and an instant are shown the way the store shows a DATE
\* and a TIMESTAMP.
Parsed(s) ==
    LET date == ParseDate(SubSeq(s, 1, 10))
        h == ToInt(SubSeq(s, 12, 13))
        mi == ToInt(SubSeq(s, 15, 16))
        sec == ToInt(SubSeq(s, 18, 19))
        IsoDate == ZFill(IntToStr(date[1]), 4) \o "-" \o ZFill(IntToStr(date[2]), 2)
                       \o "-" \o ZFill(IntToStr(date[3]), 2)
        IsoTime == ZFill(IntToStr(h), 2) \o ":" \o ZFill(IntToStr(mi), 2)
                       \o ":" \o ZFill(IntToStr(sec), 2)
    IN  IF Len(s) = 10 /\ date # << >> THEN IsoDate
        ELSE IF /\ Len(s) = 25
                /\ date # << >>
                /\ SubSeq(s, 11, 11) = "T"
                /\ SubSeq(s, 14, 14) = ":"
                /\ SubSeq(s, 17, 17) = ":"
                /\ h \in 0..23
                /\ mi \in 0..59
                /\ sec \in 0..59
                /\ SubSeq(s, 20, 25) = "+00:00"
        THEN IsoDate \o " " \o IsoTime
        ELSE ""

\* The date strings the index documents and the feeds carry, each with the
\* date (or instant) pandas makes of it.
DateStrings ==
    {"2024-11-01", "2024-08-02", "2024-11-01T09:30:00+00:00", "2024-02-30"}
KnownDates == [s \in DateStrings |-> Parsed(s)]

\* pd.to_datetime(column, errors="coerce"): a date, or NaT.
ToDatetime(x) ==
    IF IsStr(x) /\ x.v \in DOMAIN KnownDates /\ KnownDates[x.v] # ""
    THEN Date(KnownDates[x.v])
    ELSE None

\* pd.to_numeric(column, errors="coerce"): a float, or NaN.
ToNumeric(x) == IF FloatOk(x) THEN PyFloat(x) ELSE None

\* Mutant of SecFill: the enrichment columns are left out of the dictionary.
SecFillWithoutEnrichment ==
    [c \in Range(sec_columns)
           \ {"filing_date", "summary_ai", "sentiment", "sentiment_score"} |->
        Str("")]

\* The fillna dictionaries: every column but the date column has a default.
SecFill ==
    [c \in Range(sec_columns) \ {"filing_date"} |->
        CASE c = "sentiment" -> Str("Unknown")
          [] c = "sentiment_score" -> Float(0)
          [] OTHER -> Str("")]

NewsFill ==
    [c \in Range(news_columns) \ {"published"} |->
        CASE c = "sentiment" -> Str("Unknown")
          [] c = "sentiment_score" -> Float(0)
          [] OTHER -> Str("")]

FillNa(x, c, fill) == IF IsNone(x) /\ c \in DOMAIN fill THEN fill[c] ELSE x

\* One row of the frame handed to INSERT: the schema's columns only, the
\* date and the score coerced, missing values filled.
ReconcileRow(item, columns, datecol, fill) ==
    [c \in Range(columns) |->
        LET raw == Get(item, c)
            typed == IF c = datecol THEN ToDatetime(raw)
                     ELSE IF c = "sentiment_score" THEN ToNumeric(raw)
                     ELSE raw
        IN  FillNa(typed, c, fill)]

SecFrame(items) ==
    [i \in DOMAIN items |-> ReconcileRow(items[i], sec_columns, "filing_date", SecFill)]

NewsFrame(items) ==
    [i \in DOMAIN items |-> ReconcileRow(items[i], news_columns, "published", NewsFill)]

\* pd.DataFrame(items) as ParquetPipeline writes it: the columns are the keys
\* that occur in the items, a missing value is NaN, nothing is coerced.
RawFrame(items) ==
    LET cols == UNION { DOMAIN items[i] : i \in DOMAIN items }
    IN  [i \in DOMAIN items |-> [c \in cols |-> Get(items[i], c)]]

(***************************************************************************)
(* ExtractionAdapters and the items the two spiders build.                 *)
(***************************************************************************)
\* sec_fillings.py: report_text.split()[:4000]
ReportWords == 4000
\* yahoo_news_rss.py: article_text.split()[:2000]
ArticleWords == 2000

\* str.split(): the maximal runs of non-blank characters, in order.
RECURSIVE SplitFrom(_, _, _)
SplitFrom(s, word, words) ==
    IF s = "" THEN (IF word = "" THEN words ELSE Append(words, word))
    ELSE IF SubSeq(s, 1, 1) = " "
         THEN SplitFrom(SubSeq(s, 2, Len(s)), "",
                        IF word = "" THEN words ELSE Append(words, word))
         ELSE SplitFrom(SubSeq(s, 2, Len(s)), word \o SubSeq(s, 1, 1), words)

Split(s) == SplitFrom(s, "", << >>)

\* " ".join(words)
RECURSIVE Join(_)
Join(words) ==
    IF words = << >> THEN ""
    ELSE IF Len(words) = 1 THEN words[1]
    ELSE words[1] \o " " \o Join(Tail(words))

\* " ".join(text.split()[:n])
TruncateWords(text, n) ==
    LET words == Split(text)
    IN  Join(IF Len(words) <= n THEN words ELSE SubSeq(words, 1, n))

\* acc.replace("-", "")
RECURSIVE RemoveDashes(_)
RemoveDashes(s) ==
    IF s = "" THEN ""
    ELSE (IF SubSeq(s, 1, 1) = "-" THEN "" ELSE SubSeq(s, 1, 1))
            \o RemoveDashes(SubSeq(s, 2, Len(s)))

\* str.upper() on the letters of a ticker symbol.
LowerCase == "abcdefghijklmnopqrstuvwxyz"
UpperCase == "ABCDEFGHIJKLMNOPQRSTUVWXYZ"

\* The capital of every small letter.
UpperOf ==
    [c \in { SubSeq(LowerCase, i, i) : i \in 1..Len(LowerCase) } |->
        LET i == CHOOSE i \in 1..Len(LowerCase) : SubSeq(LowerCase, i, i) = c
        IN  SubSeq(UpperCase, i, i)]

UpperChar(c) == IF c \in DOMAIN UpperOf THEN UpperOf[c] ELSE c

RECURSIVE Upper(_)
Upper(s) ==
    IF s = "" THEN "" ELSE UpperChar(SubSeq(s, 1, 1)) \o Upper(SubSeq(s, 2, Len(s)))

\* The outcome of requests.get of company_tickers.json: the request or
\* raise_for_status raised, or the companies of the document in its order.
Company(cik_str, ticker) == [cik_str |-> cik_str, ticker |-> ticker]
TableFailed == [ok |-> FALSE, companies |-> << >>]
Table(companies) == [ok |-> TRUE, companies |-> companies]

\* Reference tables: none, one with Apple between a symbol that begins like
\* it and one that continues it, and one without Apple.
AppleTable ==
    Table(<< Company(1158449, "AAP"), Company(320193, "AAPL"),
             Company(4611, "AAPLW"), Company(789019, "MSFT") >>)

ReferenceTables ==
    { TableFailed,
      AppleTable,
      Table(<< Company(1158449, "AAP"), Company(789019, "MSFT") >>) }

\* Mutant of SameTicker: the symbols are compared as they are written.
SameTickerAsWritten(a, b) == a = b

\* company_data['ticker'].upper() == ticker.upper()
SameTicker(a, b) == Upper(a) = Upper(b)

\* to_cik: the identifier of the first company with the ticker, padded to 10
\* digits; None when there is none or the table could not be fetched.
to_cik(table, ticker) ==
    LET matches == { k \in DOMAIN table.companies :
                        SameTicker(table.companies[k].ticker, ticker) }
    IN  IF ~table.ok \/ matches = {} THEN None
        ELSE LET first == CHOOSE k \in matches : \A j \in matches : k <= j
             IN  Str(ZFill(IntToStr(table.companies[first].cik_str), 10))

\* Mutant of ConstructionFails: the spider is built without an identifier.
ConstructionNeverFails(cik_found) == FALSE

\* SecFilingsSpider.__init__: if not self.cik: raise ValueError(...)
ConstructionFails(cik_found) == ~Truthy(cik_found)

\* The -a ticker=... arguments a spider is started with ('' for none).
TickerArgs == {"aapl", "zzzz", ""}

\* Mutant of RelevantForm: the form check is left out.
RelevantFormUnfiltered(form) == TRUE

\* The forms parse follows: if form not in ("10-K", "10-Q", "8-K"): continue
RelevantForm(form) == form \in {"10-K", "10-Q", "8-K"}

\* Form types a filing index lists: a relevant one and one that is not.
Forms == {"10-K", "4"}

\* The i-th row of filings.recent for a form: form, filingDate,
\* accessionNumber, primaryDocument.
FilingEntry(i, form) ==
    [form |-> form,
     filingDate |-> IF form = "10-K" THEN "2024-11-01" ELSE "2024-08-02",
     accessionNumber |-> "0000320193-24-00008" \o IntToStr(i),
     primaryDocument |-> "doc" \o IntToStr(i) \o ".htm"]

\* The meta dictionary parse attaches to the report request; cik and name
\* are those of the index document (int(cik) prints it without padding).
ReportMeta(ticker, e) ==
    [cik |-> Str("320193"),
     ticker |-> Str(ticker),
     company_name |-> Str("Apple Inc."),
     form |-> Str(e.form),
     filing_date |-> Str(e.filingDate),
     accession_no |-> Str(e.accessionNumber),
     primary_doc |-> Str(e.primaryDocument),
     report_url |-> Str("https://www.sec.gov/Archives/edgar/data/320193/"
                        \o RemoveDashes(e.accessionNumber) \o "/"
                        \o e.primaryDocument)]

\* parse_report: the SecFilingItem of a report whose text is not empty.
SecFilingItem(meta, report_text) ==
    Put(meta, "report_text", Str(TruncateWords(report_text, ReportWords)))

\* Extracted report texts: none, 5 characters, and more than 10.
ReportTexts == {"", "Short", "Annual  report: revenue up. "}
\* The report texts a crawl is checked with.
CrawlReportTexts == {"", "Annual  report: revenue up. "}

\* The i-th entry of the feed: title, summary, and the published instant
\* parse_rss computes (None when the entry has none or it cannot be
\* converted).  Odd entries carry a headline and a summary, even entries a
\* bare symbol.
FeedEntry(i) ==
    IF i % 2 = 1
    THEN [title |-> "Apple beats estimates", summary |-> "Shares rose.",
          published |-> Str("2024-11-01T09:30:00+00:00")]
    ELSE [title |-> "AAPL", summary |-> "", published |-> None]

\* Feeds of every length up to MaxEntries.
Feeds == { [i \in 1..n |-> FeedEntry(i)] : n \in 0..MaxEntries }

NewsLink(i) == "https://finance.yahoo.com/news/" \o IntToStr(i)

\* The meta dictionary parse_rss attaches to the article request.
ArticleMeta(ticker, i, e) ==
    [ticker |-> Str(ticker),
     source |-> Str("YahooFinanceRSS"),
     title |-> Str(e.title),
     link |-> Str(NewsLink(i)),
     published |-> e.published,
     summary |-> Str(e.summary)]

\* parse_article: the NewsItem; the body is '' when there is no caas-body.
NewsItem(meta, article_text) ==
    Put(meta, "article_text", Str(TruncateWords(article_text, ArticleWords)))

\* Extracted article bodies: none, and more than 10 characters.
ArticleTexts == {"", "Apple reported record revenue."}

(***************************************************************************)
(* State.                                                                  *)
(***************************************************************************)
VARIABLES
    spider,          \* the spider of the run: "sec_filings", "yahoo_news_rss",
                     \* or "any" when the item pipelines are driven directly
    openai_api_key,  \* whether OPENAI_API_KEY is set
    item_limit,      \* CLOSESPIDER_ITEMCOUNT of the run
    pc,              \* "init", "failed", "open", "open_failed", "start",
                     \* "index", "crawl", "close_parquet", "close_duckdb",
                     \* "done"; "killed" (by the timeout of run_spider);
                     \* "finished" (both spiders of the generate block ran)
    listing,         \* the rows of the filing index / the entries of the feed
    pending,         \* report / article requests in the scheduler
    inflight,        \* report / article requests in the downloader
    fetched,         \* what became of each entry's request: "none" so far,
                     \* "excluded" (by robots.txt), "failed", "empty" (a
                     \* report without text), "ok"
    wire,            \* the fetches sent to a host: which document, and
                     \* whether the host's robots.txt allowed it ("allowed")
                     \* or was not read for it ("unread")
    closing,         \* the engine was asked to close the spider
    itemcount,       \* items counted by the item-count ceiling
    cur,             \* the item inside the item pipelines
    stage,           \* "idle", "openai", "duckdb", "parquet", "scraped"
    calls,           \* analysis calls made: the ordinal of the item of each
    duck_items,      \* DuckDBPipeline.items
    parquet_items,   \* ParquetPipeline.items
    sec_filings,     \* store table sec_filings
    news,            \* store table news
    con,             \* what the run did with DuckDBPipeline.con, in order:
                     \* "connect", "execute" (one statement), "close"
    lake,            \* archive files: <<kind, timestamp>> -> frame
    report,          \* outcome of each insertion and each archive write
    now,             \* the second the wall clock shows
    run,             \* the ordinal of the run (process) on this store
    ticker_arg,      \* the -a ticker=... argument of the run
    cik_arg,         \* the -a cik=... argument of the run ("" for none)
    company_tickers, \* what the fetch of company_tickers.json gives
    cik,             \* self.cik of SecFilingsSpider
    elapsed,         \* seconds since subprocess.run started the process
    spent,           \* seconds the earlier spiders of the generate block took
    results          \* what run_spider returned so far: ok, how the process
                     \* ended, and the write outcomes of the process

vars ==
    << spider, openai_api_key, item_limit, pc, listing, pending, inflight,
       fetched, wire, closing, itemcount, cur, stage, calls, duck_items, parquet_items,
       sec_filings, news, con, lake, report, now, run, ticker_arg,
       company_tickers, cik, elapsed, spent, results, cik_arg >>

args ==
    << spider, openai_api_key, item_limit, ticker_arg, cik_arg,
       company_tickers >>
invocation == << elapsed, spent, results >>
config == << args, cik, now, run, invocation >>
engine == << listing, pending, inflight, fetched, wire >>
buffers == << duck_items, parquet_items >>
store == << sec_filings, news, con >>

NoItem == [k \in {} |-> None]
NoFiles == [f \in {} |-> << >>]
NoReport ==
    [sec_insert |-> "none", news_insert |-> "none",
     sec_file |-> "none", news_file |-> "none"]

\* DuckDBPipeline.open_spider when nothing raises: the connection is
\* opened, the two CREATE TABLE IF NOT EXISTS and the two SELECT COUNT are
\* executed.
OpenSpiderOps == << "connect", "execute", "execute", "execute", "execute" >>

\* self.ticker.  YahooNewsRSSSpider: ticker.upper().  SecFilingsSpider:
\* with a cik, "self.ticker = ticker or self.cik", the ticker as it was
\* written or else the padded identifier; without one, ticker.upper().
Ticker ==
    IF spider = "sec_filings" /\ cik_arg # ""
    THEN (IF ticker_arg # "" THEN ticker_arg ELSE ZFill(cik_arg, 10))
    ELSE Upper(ticker_arg)
\* datetime.utcnow().strftime("%Y%m%d_%H%M%S") at the second the wall clock
\* shows: the file names tell runs apart to the second.
Stamp(second) == "20241101_09300" \o Digit(second)
Timestamp == Stamp(now)

InitCommon ==
    /\ openai_api_key \in BOOLEAN
    /\ listing = << >>
    /\ pending = {}
    /\ inflight = {}
    /\ fetched = << >>
    /\ closing = FALSE
    /\ itemcount = 0
    /\ cur = NoItem
    /\ stage = "idle"
    /\ calls = << >>
    /\ duck_items = << >>
    /\ parquet_items = << >>
    /\ sec_filings = << >>
    /\ news = << >>
    /\ lake = NoFiles
    /\ report = NoReport
    /\ now = 0
    /\ run = 1
    /\ elapsed = 0
    /\ spent = 0
    /\ results = << >>

\* A crawl started by run_spider: scrapy crawl <spider> -a ticker=...
\* -s CLOSESPIDER_ITEMCOUNT=<item_limit>.  The filing spider looks the ticker
\* up in the reference table; the news spider is started for one symbol or
\* without one.
Init ==
    /\ \/ /\ spider = "sec_filings"
          /\ ticker_arg \in TickerArgs
          /\ company_tickers \in ReferenceTables
       \/ /\ spider = "yahoo_news_rss"
          /\ ticker_arg \in {"aapl", ""}
          /\ company_tickers = TableFailed
    /\ item_limit \in 1..MaxLimit
    /\ pc = "init"
    /\ cik_arg = ""
    /\ cik = None
    /\ con = << >>
    /\ wire = {}
    /\ InitCommon

\* A fetch a Scrapy request led to: the request passed RobotsTxtMiddleware
\* (ROBOTSTXT_OBEY), which read the host's robots.txt and found the path
\* allowed, before the downloader sent it.
Downloaded(url) == [url |-> url, robots |-> "allowed"]

\* The report / article of the i-th entry of the listing.
EntryDocument(i) == "entry" \o IntToStr(i)

\* The fetch of company_tickers.json: to_cik calls requests.get itself, so
\* no middleware of the crawler sees it.
Get_company_tickers == [url |-> "company_tickers", robots |-> "unread"]

\* Spider.__init__ of the run's spider.  YahooNewsRSSSpider raises without
\* a ticker.  SecFilingsSpider given a cik pads it to ten digits and looks
\* nothing up; given a ticker only, it raises when to_cik finds no
\* identifier for self.ticker; given neither, it raises.  A spider that is
\* not built crawls nothing.
Construct ==
    /\ pc = "init"
    /\ IF spider = "sec_filings" /\ cik_arg # ""
       THEN /\ cik' = Str(ZFill(cik_arg, 10))
            /\ pc' = "open"
            /\ UNCHANGED wire
       ELSE IF ticker_arg = ""
       THEN /\ pc' = "failed"
            /\ UNCHANGED << cik, wire >>
       ELSE IF spider = "sec_filings"
       THEN /\ cik' = to_cik(company_tickers, Ticker)
            /\ wire' = wire \cup {Get_company_tickers}
            /\ pc' = IF ConstructionFails(cik') THEN "failed" ELSE "open"
       ELSE /\ pc' = "open"
            /\ UNCHANGED << cik, wire >>
    /\ UNCHANGED << args, now, run, invocation, listing, pending, inflight,
                    fetched, closing, itemcount, cur, stage,
                    calls, buffers, store, lake, report >>

\* DuckDBPipeline.open_spider, called by the engine before the first
\* request is scheduled.  When duckdb.connect raises (ok is FALSE) the
\* error is logged and raised again: the crawl is not started.
DuckDBOpenSpider(ok) ==
    /\ pc = "open"
    /\ pc' = IF ok THEN "start" ELSE "open_failed"
    /\ con' = IF ok THEN OpenSpiderOps ELSE con
    /\ UNCHANGED << config, engine, closing, itemcount, cur, stage, calls,
                    buffers, sec_filings, news, lake, report >>

(***************************************************************************)
(* CrawlWorkers and the engine that schedules their requests.              *)
(***************************************************************************)
\* Mutant of ITEM_PIPELINES: the store pipeline runs before the enrichment.
ITEM_PIPELINES_StoreFirst == << "duckdb", "openai", "parquet" >>

\* ITEM_PIPELINES by ascending priority: process_item is called in this
\* order for every item.
ITEM_PIPELINES == << "openai", "duckdb", "parquet" >>

\* The pipeline an item enters first, and the one after a pipeline; past
\* the last one the item is scraped.
FirstStage == ITEM_PIPELINES[1]
StageAfter(s) ==
    LET k == CHOOSE j \in DOMAIN ITEM_PIPELINES : ITEM_PIPELINES[j] = s
    IN  IF k = Len(ITEM_PIPELINES) THEN "scraped" ELSE ITEM_PIPELINES[k + 1]

\* start_requests of either spider: the index / feed request is issued.
StartRequests ==
    /\ pc = "start"
    /\ pc' = "index"
    /\ UNCHANGED << config, engine, closing, itemcount, cur, stage, calls,
                    buffers, store, lake, report >>

\* The index / feed request gives nothing to follow: robots.txt excludes
\* it and it is not sent, or it is sent and fails (error status, an index
\* document that is no JSON or lists no filings).
IndexFailed(sent) ==
    /\ pc = "index"
    /\ pc' = "crawl"
    /\ wire' = IF sent THEN wire \cup {Downloaded("index")} ELSE wire
    /\ UNCHANGED << config, listing, pending, inflight, fetched, closing, itemcount, cur, stage, calls,
                    buffers, store, lake, report >>

\* The report requests SecFilingsSpider.parse yields for a listing.
FollowedReports(rows) == { i \in DOMAIN rows : RelevantForm(rows[i].form) }

\* SecFilingsSpider.parse on an index document listing the given forms.
Parse(forms) ==
    /\ pc = "index"
    /\ spider = "sec_filings"
    /\ listing' = [i \in DOMAIN forms |-> FilingEntry(i, forms[i])]
    /\ pending' = FollowedReports(listing')
    /\ fetched' = [i \in DOMAIN forms |-> "none"]
    /\ wire' = wire \cup {Downloaded("index")}
    /\ pc' = "crawl"
    /\ UNCHANGED << config, inflight, closing, itemcount, cur, stage, calls,
                    buffers, store, lake, report >>

\* YahooNewsRSSSpider.parse_rss on a feed with the given entries.
ParseRss(entries) ==
    /\ pc = "index"
    /\ spider = "yahoo_news_rss"
    /\ listing' = entries
    /\ pending' = DOMAIN entries
    /\ fetched' = [i \in DOMAIN entries |-> "none"]
    /\ wire' = wire \cup {Downloaded("index")}
    /\ pc' = "crawl"
    /\ UNCHANGED << config, inflight, closing, itemcount, cur, stage, calls,
                    buffers, store, lake, report >>

\* Mutant of TakesRequests: a closing engine still starts downloads.
TakesRequestsWhileClosing(is_closing) == TRUE

\* Whether the engine takes further requests from the scheduler: not once
\* CLOSESPIDER_ITEMCOUNT asked it to close the spider.
TakesRequests(is_closing) == ~is_closing

\* Mutant of SlotFree: the downloader takes any number of requests.
SlotAlwaysFree(downloading) == TRUE

\* Whether the downloader takes one more request: while fewer than
\* CONCURRENT_REQUESTS are being downloaded.
SlotFree(downloading) == Cardinality(downloading) < CONCURRENT_REQUESTS

\* The engine moves a request from the scheduler to the downloader: only
\* while the spider is not closing and fewer than CONCURRENT_REQUESTS are
\* being downloaded.  The order in which the scheduler hands requests out is
\* not set by the project, so any pending request may be next.
Dispatch(i) ==
    /\ pc = "crawl"
    /\ stage = "idle"
    /\ TakesRequests(closing)
    /\ i \in pending
    /\ SlotFree(inflight)
    /\ pending' = pending \ {i}
    /\ inflight' = inflight \cup {i}
    /\ UNCHANGED << config, pc, listing, fetched, wire, closing, itemcount,
                    cur, stage, calls, buffers, store, lake, report >>

\* Mutant of FetchFailureCloses: a failed fetch ends the crawl.
FetchFailureClosesSpider == TRUE

\* Whether a failed report / article fetch asks the engine to close the
\* spider: the requests have no errback and parse_report only logs and
\* returns on a status other than 200, so it does not.
FetchFailureCloses == FALSE

\* RobotsTxtMiddleware finds the path of a report / article request
\* disallowed: the request is dropped (IgnoreRequest) before it is sent, and
\* nothing schedules it again.
RobotsExcluded(i) ==
    /\ pc = "crawl"
    /\ stage = "idle"
    /\ i \in inflight
    /\ inflight' = inflight \ {i}
    /\ fetched' = [fetched EXCEPT ![i] = "excluded"]
    /\ UNCHANGED << config, pc, listing, pending, wire, closing, itemcount,
                    cur, stage, calls, buffers, store, lake, report >>

\* A report / article request was sent and ends without a response for the
\* callback (error status, connection failure).
FetchFailed(i) ==
    /\ pc = "crawl"
    /\ stage = "idle"
    /\ i \in inflight
    /\ inflight' = inflight \ {i}
    /\ fetched' = [fetched EXCEPT ![i] = "failed"]
    /\ wire' = wire \cup {Downloaded(EntryDocument(i))}
    /\ closing' = (closing \/ FetchFailureCloses)
    /\ UNCHANGED << config, pc, listing, pending, itemcount, cur, stage,
                    calls, buffers, store, lake, report >>

\* Mutant of NoReportText: a report without text is not told apart.
NoReportTextNeverTrue(text) == FALSE

\* parse_report: "if not report_text: return" on the text get_text gives.
NoReportText(text) == text = ""

\* SecFilingsSpider.parse_report on a 200 response with the extracted text:
\* no item when the text is empty, else the SecFilingItem enters the item
\* pipelines.
ParseReport(i, text) ==
    /\ pc = "crawl"
    /\ spider = "sec_filings"
    /\ stage = "idle"
    /\ i \in inflight
    /\ inflight' = inflight \ {i}
    /\ fetched' = [fetched EXCEPT ![i] = IF text = "" THEN "empty" ELSE "ok"]
    /\ wire' = wire \cup {Downloaded(EntryDocument(i))}
    /\ IF NoReportText(text)
       THEN UNCHANGED << cur, stage >>
       ELSE /\ cur' = SecFilingItem(ReportMeta(Ticker, listing[i]), text)
            /\ stage' = FirstStage
    /\ UNCHANGED << config, pc, listing, pending, closing, itemcount, calls,
                    buffers, store, lake, report >>

\* YahooNewsRSSSpider.parse_article on a response whose caas-body holds the
\* text ('' when there is none): the NewsItem enters the item pipelines.
ParseArticle(i, text) ==
    /\ pc = "crawl"
    /\ spider = "yahoo_news_rss"
    /\ stage = "idle"
    /\ i \in inflight
    /\ inflight' = inflight \ {i}
    /\ fetched' = [fetched EXCEPT ![i] = "ok"]
    /\ wire' = wire \cup {Downloaded(EntryDocument(i))}
    /\ cur' = NewsItem(ArticleMeta(Ticker, i, listing[i]), text)
    /\ stage' = FirstStage
    /\ UNCHANGED << config, pc, listing, pending, closing, itemcount, calls,
                    buffers, store, lake, report >>

(***************************************************************************)
(* The item pipelines, in ITEM_PIPELINES order: OpenAIPipeline (200),      *)
(* DuckDBPipeline (300), ParquetPipeline (400).  The three process_item    *)
(* are plain blocking functions, so an item passes all of them before the  *)
(* engine handles the next response.                                       *)
(***************************************************************************)
\* Responses of the analysis service.
GoodAnalysis ==
    [summary |-> Str("Revenue grew."), sentiment |-> Str("Positive"),
     sentiment_score |-> Float(5)]

Restrict(f, keys) == [k \in keys |-> f[k]]

Responses ==
    { Response("error", NoObject),
      Response("invalid", NoObject),
      Response("list", NoObject),
      Response("object", GoodAnalysis),
      Response("object", Put(GoodAnalysis, "sentiment_score", Float(50))),
      Response("object", Put(GoodAnalysis, "sentiment_score", Str("0.5"))),
      Response("object", Put(GoodAnalysis, "sentiment_score", Str("high"))),
      Response("object", Put(GoodAnalysis, "sentiment_score", None)),
      Response("object", Restrict(GoodAnalysis, {"sentiment", "sentiment_score"})),
      Response("object", Restrict(GoodAnalysis, {"summary", "sentiment"})),
      Response("object", Put(Put(GoodAnalysis, "summary", None), "sentiment", None)),
      Response("object", NoObject) }

\* The responses a crawl is checked with.
CrawlResponses ==
    { Response("error", NoObject), Response("object", GoodAnalysis) }

\* Mutant of Attempts: a call that raised is made once more.
AttemptsWithRetry(resp) == IF resp.kind = "error" THEN 2 ELSE 1

\* How often process_item calls openai.chat.completions.create for an item
\* that reaches the try block: once, whatever the outcome (the except branch
\* sets the fallback values and does not call again).
Attempts(resp) == 1

\* OpenAIPipeline.process_item with the service answering resp; every call
\* is made for the one item at hand and recorded with that item's ordinal.
OpenAIProcessItem(resp) ==
    /\ stage = "openai"
    /\ cur' = Enrich(openai_api_key, cur, resp)
    /\ calls' = IF CallsService(openai_api_key, cur)
                THEN calls \o [k \in 1..Attempts(resp) |-> Len(duck_items) + 1]
                ELSE calls
    /\ stage' = StageAfter("openai")
    /\ UNCHANGED << config, pc, engine, closing, itemcount, buffers, store,
                    lake, report >>

\* DuckDBPipeline.process_item
DuckDBProcessItem ==
    /\ stage = "duckdb"
    /\ duck_items' = Append(duck_items, cur)
    /\ stage' = StageAfter("duckdb")
    /\ UNCHANGED << config, pc, engine, closing, itemcount, cur, calls,
                    parquet_items, store, lake, report >>

\* ParquetPipeline.process_item
ParquetProcessItem ==
    /\ stage = "parquet"
    /\ parquet_items' = Append(parquet_items, cur)
    /\ stage' = StageAfter("parquet")
    /\ UNCHANGED << config, pc, engine, closing, itemcount, cur, calls,
                    duck_items, store, lake, report >>

\* CLOSESPIDER_ITEMCOUNT: the item that left the pipelines is counted, and
\* when the count equals the ceiling the engine is asked to close the spider.
ItemScraped ==
    /\ stage = "scraped"
    /\ itemcount' = itemcount + 1
    /\ closing' = (closing \/ itemcount' = item_limit)
    /\ cur' = NoItem
    /\ stage' = "idle"
    /\ UNCHANGED << config, pc, engine, calls, buffers, store, lake, report >>

\* The engine closes the spider once nothing is being downloaded or
\* processed and either a close was asked for or no request is left; the
\* requests still in the scheduler are dropped.
CloseSpider ==
    /\ pc = "crawl"
    /\ stage = "idle"
    /\ inflight = {}
    /\ closing \/ pending = {}
    /\ pending' = {}
    /\ pc' = "close_parquet"
    /\ UNCHANGED << config, listing, inflight, fetched, wire, closing,
                    itemcount, cur, stage, calls, buffers, store, lake, report >>

\* The outcome of one write: not attempted, done, or raised.
Outcome(attempted, ok) == IF ~attempted THEN "none" ELSE IF ok THEN "ok" ELSE "failed"

\* Whether ParquetPipeline.close_spider reaches the news write: the two
\* writes share one try block, so a filing write that raises skips it.
NewsWriteReached(sec_file) == sec_file # "failed"

\* ParquetPipeline.close_spider (close_spider runs in reverse pipeline
\* order, so the archive is written before the store); sec_ok and news_ok
\* say whether to_parquet succeeds.
ParquetCloseSpider(sec_ok, news_ok) ==
    /\ pc = "close_parquet"
    /\ pc' = "close_duckdb"
    /\ LET sec_items == ParquetSecItems(parquet_items)
           news_items == ParquetNewsItems(parquet_items)
           sec_file == Outcome(sec_items # << >>, sec_ok)
           news_file == Outcome(news_items # << >> /\ NewsWriteReached(sec_file),
                                news_ok)
           sec_written == IF sec_file = "ok"
                          THEN << "sec_filings", Timestamp >> :> RawFrame(sec_items)
                          ELSE NoFiles
           news_written == IF news_file = "ok"
                           THEN << "news", Timestamp >> :> RawFrame(news_items)
                           ELSE NoFiles
       IN  /\ lake' = news_written @@ sec_written @@ lake
           /\ report' = [report EXCEPT !.sec_file = sec_file,
                                       !.news_file = news_file]
    /\ UNCHANGED << config, engine, closing, itemcount, cur, stage, calls,
                    buffers, store >>

\* Mutant of InsertInto: rows the table already holds are not added again.
InsertIntoDeduplicated(table, frame) ==
    table \o SelectSeq(frame, LAMBDA row : row \notin Range(table))

\* INSERT INTO <table> SELECT * FROM <frame>: the tables have no key and the
\* statement no condition, so every row of the frame is added after the rows
\* the table holds.
InsertInto(table, frame) == table \o frame

\* Mutant of FailedInsert: the rows before the one that raised stay.
FailedInsertKeepsFirstRow(table, frame) == table \o SubSeq(frame, 1, 1)

\* The table after an INSERT ... SELECT that raised: one statement, so no
\* row of the frame was added.
FailedInsert(table, frame) == table

\* Mutant of ArchiveErrorCaught: the archive error leaves close_spider.
ArchiveErrorRaised == FALSE

\* ParquetPipeline.close_spider catches every exception of its writes and
\* logs it, so the close_spider of DuckDBPipeline runs whatever the outcome
\* of the archive.
ArchiveErrorCaught == TRUE

\* Whether DuckDBPipeline.close_spider is run after the archive outcome.
StoreCloseReached(rep) ==
    ArchiveErrorCaught \/ "failed" \notin {rep.sec_file, rep.news_file}

\* Mutant of NewsInsertReached: one try block around both insertions.
NewsInsertInSameTry(sec_insert) == sec_insert # "failed"

\* Whether DuckDBPipeline.close_spider reaches the news insertion: each kind
\* has its own try block.
NewsInsertReached(sec_insert) == TRUE

\* Mutant of EmptyBufferOps: close_spider returns without closing.
EmptyBufferLeavesOpen == << >>

\* DuckDBPipeline.close_spider with no item: self.con.close(); return.
EmptyBufferOps == << "close" >>

\* The statements of one kind's try block: none when the kind has no item
\* (or the block is not reached), INSERT and SELECT COUNT when all goes
\* well, the statement that raised otherwise.
InsertOps(outcome) ==
    CASE outcome = "none" -> << >>
      [] outcome = "ok" -> << "execute", "execute" >>
      [] outcome = "failed" -> << "execute" >>

\* What close_spider does with the connection: with items, the two try
\* blocks, then self.con.close() in a try of its own.
CloseSpiderOps(items, reached, sec_insert, news_insert) ==
    IF ~reached THEN << >>
    ELSE IF items = << >> THEN EmptyBufferOps
    ELSE InsertOps(sec_insert) \o InsertOps(news_insert) \o << "close" >>

\* DuckDBPipeline.close_spider; sec_ok and news_ok say whether the kind's
\* try block (frame, register, INSERT) runs through.  INSERT ... SELECT is
\* one statement: it adds the whole frame or nothing.
DuckDBCloseSpider(sec_ok, news_ok) ==
    /\ pc = "close_duckdb"
    /\ pc' = "done"
    /\ LET sec_items == SecItems(duck_items)
           news_items == NewsItems(duck_items)
           reached == StoreCloseReached(report)
           sec_insert == Outcome(reached /\ sec_items # << >>, sec_ok)
           news_insert == Outcome(/\ reached
                                  /\ news_items # << >>
                                  /\ NewsInsertReached(sec_insert),
                                  news_ok)
           sec_frame == SelectStar(SecFrame(sec_items), sec_columns, sec_schema)
           news_frame == SelectStar(NewsFrame(news_items), news_columns,
                                    news_schema)
       IN  /\ sec_filings' = CASE sec_insert = "ok" -> InsertInto(sec_filings, sec_frame)
                               [] sec_insert = "failed" ->
                                      FailedInsert(sec_filings, sec_frame)
                               [] OTHER -> sec_filings
           /\ news' = CASE news_insert = "ok" -> InsertInto(news, news_frame)
                        [] news_insert = "failed" -> FailedInsert(news, news_frame)
                        [] OTHER -> news
           /\ report' = [report EXCEPT !.sec_insert = sec_insert,
                                       !.news_insert = news_insert]
           /\ con' = con \o CloseSpiderOps(duck_items, reached, sec_insert,
                                           news_insert)
    /\ UNCHANGED << config, engine, closing, itemcount, cur, stage, calls,
                    buffers, lake >>

\* Filing indexes of every length up to MaxEntries.
Listings == UNION { [1..n -> Forms] : n \in 0..MaxEntries }

Pipelines(responses) ==
    \/ \E resp \in responses : OpenAIProcessItem(resp)
    \/ DuckDBProcessItem
    \/ ParquetProcessItem
    \/ ItemScraped

Close ==
    \/ CloseSpider
    \/ \E sec_ok, news_ok \in BOOLEAN : ParquetCloseSpider(sec_ok, news_ok)
    \/ \E sec_ok, news_ok \in BOOLEAN : DuckDBCloseSpider(sec_ok, news_ok)

Next ==
    \/ Construct
    \/ \E ok \in BOOLEAN : DuckDBOpenSpider(ok)
    \/ StartRequests
    \/ \E sent \in BOOLEAN : IndexFailed(sent)
    \/ \E forms \in Listings : Parse(forms)
    \/ \E entries \in Feeds : ParseRss(entries)
    \/ \E i \in pending : Dispatch(i)
    \/ \E i \in inflight : RobotsExcluded(i)
    \/ \E i \in inflight : FetchFailed(i)
    \/ \E i \in inflight, text \in CrawlReportTexts : ParseReport(i, text)
    \/ \E i \in inflight, text \in ArticleTexts : ParseArticle(i, text)
    \/ Pipelines(CrawlResponses)
    \/ Close

\* One run of a spider, from start_requests to the end of close_spider.
Spec == Init /\ [][Next]_vars

\* A run started with CLOSESPIDER_ITEMCOUNT = 1.  The reactor keeps handling
\* events, and every download ends (with a response, an error, or the
\* download timeout): a step that can be taken is taken.
FairInit == Init /\ item_limit = 1
FairSpec == FairInit /\ [][Next]_vars /\ WF_vars(Next)

(***************************************************************************)
(* The item pipelines on their own.  ITEM_PIPELINES holds for every spider *)
(* of the project, and the pipelines tell the kinds apart item by item, so *)
(* here a spider hands them any sequence of the filing and news candidates *)
(* that parse_report and parse_article build.                              *)
(***************************************************************************)
\* self.ticker of a spider started with -a ticker=aapl.
AaplTicker == Upper("aapl")

FilingCandidate(text) ==
    SecFilingItem(ReportMeta(AaplTicker, FilingEntry(1, "10-K")), text)

NewsCandidate(i, text) == NewsItem(ArticleMeta(AaplTicker, i, FeedEntry(i)), text)

\* The candidates the two spiders build; the third is a filing whose index
\* document has no name.
CandidateItems ==
    { FilingCandidate("Short"),
      FilingCandidate("Annual  report: revenue up. "),
      Put(FilingCandidate("Quarterly results improved"), "company_name", None),
      NewsCandidate(1, "Apple reported record revenue."),
      NewsCandidate(1, ""),
      NewsCandidate(2, "") }

\* A spider callback yields an item, which enters the item pipelines.
Yield(item) ==
    /\ pc = "crawl"
    /\ spider = "any"
    /\ stage = "idle"
    /\ ~closing
    /\ cur' = item
    /\ stage' = FirstStage
    /\ UNCHANGED << config, pc, engine, closing, itemcount, calls, buffers,
                    store, lake, report >>

\* The spider was built for the ticker "aapl".
Built ==
    /\ ticker_arg = "aapl"
    /\ cik_arg = ""
    /\ company_tickers = AppleTable
    /\ cik = Str("0000320193")

PipelineInit ==
    /\ spider = "any"
    /\ item_limit = MaxItems
    /\ pc = "crawl"
    /\ Built
    /\ con = OpenSpiderOps
    /\ wire = {}
    /\ InitCommon

PipelineNext ==
    \/ \E item \in CandidateItems : Yield(item)
    \/ Pipelines(Responses)
    \/ Close

\* The item pipelines from their first item to the end of close_spider.
PipelineSpec == PipelineInit /\ [][PipelineNext]_vars

(***************************************************************************)
(* Several runs on one store and one archive directory.  warehouse.duckdb  *)
(* and the lake directory outlive the process; the buffers, the counters   *)
(* and the connection are those of one process.                            *)
(***************************************************************************)
\* DuckDBPipeline.open_spider: CREATE TABLE IF NOT EXISTS keeps the rows a
\* table holds.
OpenSpider(table) == table

\* The next process starts: fresh pipelines on the same files.
NextRun ==
    /\ pc = "done"
    /\ run < MaxRuns
    /\ run' = run + 1
    /\ pc' = "crawl"
    /\ closing' = FALSE
    /\ itemcount' = 0
    /\ cur' = NoItem
    /\ stage' = "idle"
    /\ calls' = << >>
    /\ duck_items' = << >>
    /\ parquet_items' = << >>
    /\ report' = NoReport
    /\ sec_filings' = OpenSpider(sec_filings)
    /\ news' = OpenSpider(news)
    /\ con' = OpenSpiderOps
    /\ UNCHANGED << args, cik, now, invocation, engine, lake >>

\* The wall clock reaches the next second while a run is crawling.
Tick ==
    /\ pc = "crawl"
    /\ stage = "idle"
    /\ now < MaxRuns
    /\ now' = now + 1
    /\ UNCHANGED << args, cik, run, invocation, pc, engine, closing, itemcount, cur,
                    stage, calls, buffers, store, lake, report >>

\* The candidates and the responses the runs are checked with.
RunCandidates ==
    { FilingCandidate("Annual  report: revenue up. "),
      NewsCandidate(1, "Apple reported record revenue.") }

RunResponses == { Response("object", GoodAnalysis) }

\* Every run is started with CLOSESPIDER_ITEMCOUNT = 2.
RunsInit ==
    /\ spider = "any"
    /\ item_limit = 2
    /\ pc = "crawl"
    /\ Built
    /\ con = OpenSpiderOps
    /\ wire = {}
    /\ InitCommon

RunsNext ==
    \/ \E item \in RunCandidates : Yield(item)
    \/ Pipelines(RunResponses)
    \/ Close
    \/ Tick
    \/ NextRun

\* Runs of the item pipelines one after another on the same files.
RunsSpec == RunsInit /\ [][RunsNext]_vars

(***************************************************************************)
(* A crawl whose index or feed lists more entries than the downloader has  *)
(* slots.  Every report / article fetch of such a crawl is let fail here,  *)
(* so that the requests alone are followed: where each one is, and how     *)
(* many are being downloaded.                                              *)
(***************************************************************************)
\* One entry more than CONCURRENT_REQUESTS.
ManyEntries == CONCURRENT_REQUESTS + 1

\* The spider was built for "aapl", the pipelines are open, and the index /
\* feed request was issued.
ManyInit ==
    /\ spider \in {"sec_filings", "yahoo_news_rss"}
    /\ item_limit = MaxLimit
    /\ pc = "index"
    /\ Built
    /\ con = OpenSpiderOps
    /\ wire = IF spider = "sec_filings" THEN {Get_company_tickers} ELSE {}
    /\ InitCommon
    /\ openai_api_key = FALSE

ManyNext ==
    \/ Parse([i \in 1..ManyEntries |-> "10-K"])
    \/ ParseRss([i \in 1..ManyEntries |-> FeedEntry(i)])
    \/ \E i \in pending : Dispatch(i)
    \/ \E i \in inflight : FetchFailed(i)
    \/ Close

ManySpec == ManyInit /\ [][ManyNext]_vars

(***************************************************************************)
(* The generate block of the dashboard: run_spider("sec_filings", ...)     *)
(* and then run_spider("yahoo_news_rss", ...), each a process of its own   *)
(* that subprocess.run waits for, for at most timeout seconds.             *)
(***************************************************************************)
\* run_spider: subprocess.run(..., timeout=600)
timeout == 600

\* The process of the spider is at work.
AtWork == pc \notin {"done", "failed", "open_failed", "killed", "finished"}

\* Mutant of ExitCode: a write that failed in close_spider is an error.
ExitCodeOfWrites(how, rep) ==
    IF how = "done" /\ \A w \in DOMAIN rep : rep[w] # "failed" THEN 0 ELSE 1

\* The exit code of "scrapy crawl": 1 when the spider could not be built
\* or open_spider raised, 0 once the crawl ran, whatever was logged.
ExitCode(how, rep) == IF how = "done" THEN 0 ELSE 1

\* Mutant of TimedOut: the timeout is not told apart.
TimedOutReportsOk == TRUE

\* What run_spider returns as ok when subprocess.run raises
\* TimeoutExpired: the except branch returns False.
TimedOut == FALSE

\* ok of run_spider for a process that ended as given.
Ok(how, rep) == IF how = "killed" THEN TimedOut ELSE ExitCode(how, rep) = 0

\* A third of the timeout passes while the process is at work.
Elapse ==
    /\ AtWork
    /\ elapsed < timeout
    /\ elapsed' = elapsed + timeout \div 3
    /\ UNCHANGED << args, cik, now, run, spent, results, pc, engine, closing,
                    itemcount, cur, stage, calls, buffers, store, lake, report >>

\* subprocess.run finds the process at work when the timeout is over: it
\* kills the process and raises TimeoutExpired.  What the process held in
\* memory is gone, the files are as the process left them.
TimeoutExpired ==
    /\ AtWork
    /\ elapsed >= timeout
    /\ pc' = "killed"
    /\ UNCHANGED << config, engine, closing, itemcount, cur, stage, calls,
                    buffers, store, lake, report >>

\* run_spider returns, and the generate block goes on: after the filing
\* spider with the news spider for the same ticker, after the news spider
\* with the status line.
RunSpiderReturns ==
    /\ pc \in {"done", "failed", "open_failed", "killed"}
    /\ results' = Append(results, [ok |-> Ok(pc, report), how |-> pc,
                                    report |-> report])
    /\ spent' = spent + elapsed
    /\ elapsed' = 0
    /\ IF spider = "sec_filings"
       THEN /\ spider' = "yahoo_news_rss"
            /\ run' = run + 1
            /\ pc' = "init"
       ELSE /\ pc' = "finished"
            /\ UNCHANGED << spider, run >>
    /\ cik' = None
    /\ listing' = << >>
    /\ pending' = {}
    /\ inflight' = {}
    /\ fetched' = << >>
    /\ wire' = {}
    /\ closing' = FALSE
    /\ itemcount' = 0
    /\ cur' = NoItem
    /\ stage' = "idle"
    /\ calls' = << >>
    /\ duck_items' = << >>
    /\ parquet_items' = << >>
    /\ con' = << >>
    /\ report' = NoReport
    /\ UNCHANGED << openai_api_key, item_limit, ticker_arg, cik_arg,
                    company_tickers, now, sec_filings, news, lake >>

\* The button was clicked for a ticker of the list or a typed one, with a
\* key for the analysis service.
GenerateInit ==
    /\ spider = "sec_filings"
    /\ ticker_arg \in {"AAPL", "ZZZZ"}
    /\ company_tickers = AppleTable
    /\ item_limit = 2
    /\ pc = "init"
    /\ cik_arg = ""
    /\ cik = None
    /\ con = << >>
    /\ wire = {}
    /\ InitCommon
    /\ openai_api_key = TRUE

\* The steps of the process, taken while the timeout is not over.
ProcessNext ==
    \/ Construct
    \/ \E ok \in BOOLEAN : DuckDBOpenSpider(ok)
    \/ StartRequests
    \/ \E sent \in BOOLEAN : IndexFailed(sent)
    \/ Parse(<< "10-K", "10-K" >>)
    \/ ParseRss(<< FeedEntry(1), FeedEntry(2) >>)
    \/ \E i \in pending : Dispatch(i)
    \/ \E i \in inflight : RobotsExcluded(i)
    \/ \E i \in inflight : FetchFailed(i)
    \/ \E i \in inflight, text \in CrawlReportTexts : ParseReport(i, text)
    \/ \E i \in inflight, text \in ArticleTexts : ParseArticle(i, text)
    \/ Pipelines(CrawlResponses)
    \/ Close

GenerateNext ==
    \/ elapsed < timeout /\ ProcessNext
    \/ Elapse
    \/ TimeoutExpired
    \/ RunSpiderReturns

GenerateSpec == GenerateInit /\ [][GenerateNext]_vars

\* A crawl started from the command line with every combination of the
\* arguments the constructors take: the filing spider with -a cik=...,
\* -a ticker=... (in any casing), both or neither; the news spider with or
\* without -a ticker=....
ArgsInit ==
    /\ \/ /\ spider = "sec_filings"
          /\ cik_arg \in {"", "320193"}
       \/ /\ spider = "yahoo_news_rss"
          /\ cik_arg = ""
    /\ ticker_arg \in {"", "aapl", "Aapl", "AAPL"}
    /\ company_tickers = AppleTable
    /\ item_limit = 1
    /\ pc = "init"
    /\ cik = None
    /\ con = << >>
    /\ wire = {}
    /\ InitCommon
    /\ openai_api_key = FALSE

ArgsSpec == ArgsInit /\ [][ProcessNext]_vars

\* fetch_db of the dashboard, filings part: form, filing_date, report_url
\* and the enrichment of the rows of a ticker, filing_date coerced with
\* pd.to_datetime.  (The order and the limit of 50 rows are left out.)
fetch_db(table, ticker) ==
    { [c \in {"form", "filing_date", "report_url", "summary_ai", "sentiment",
              "sentiment_score"} |->
          IF c = "filing_date"
          THEN (IF IsNone(table[k][c]) THEN None ELSE ToDatetime(Str(table[k][c].v)))
          ELSE IF c = "sentiment_score" THEN ToNumeric(table[k][c])
          ELSE table[k][c]] :
        k \in { j \in DOMAIN table : table[j]["ticker"] = Str(ticker) } }

(***************************************************************************)
(* Properties.                                                             *)
(***************************************************************************)
\* Candidates that have entered the item pipelines so far.
Emitted == Len(duck_items) + (IF stage \in {"openai", "duckdb"} THEN 1 ELSE 0)

\* The three fields the enrichment stage owns.
EnrichmentFields == {"summary_ai", "sentiment", "sentiment_score"}
Enrichment(item) == [c \in EnrichmentFields |-> Get(item, c)]

FallbackEnrichment ==
    [c \in EnrichmentFields |->
        CASE c = "summary_ai" -> Str("Error in analysis.")
          [] c = "sentiment" -> Str("Unknown")
          [] OTHER -> Float(0)]

\* A score between -1.0 and 1.0.
ScoreInRange(x) == IsFloat(x) /\ -10 <= x.v /\ x.v <= 10

\* C1: in every run of a crawl worker the number of candidates emitted into
\* the enrichment and persistence stages never exceeds the item-count
\* ceiling of the run.
C1_EmittedWithinCeiling == Emitted <= item_limit

\* A response that meets the contract: a JSON object with the three keys and
\* a numeric score between -1.0 and 1.0.
ContractMet(resp) ==
    /\ resp.kind = "object"
    /\ {"summary", "sentiment", "sentiment_score"} \subseteq DOMAIN resp.obj
    /\ FloatOk(resp.obj["sentiment_score"])
    /\ ScoreInRange(PyFloat(resp.obj["sentiment_score"]))

\* C2: the enrichment response is applied all-or-nothing: whenever an item
\* is analysed, every response that fails in transport, is unparsable,
\* lacks one of the three keys or has a score outside [-1.0, 1.0] leaves the
\* record with exactly "Error in analysis.", "Unknown", 0.0.
C2_AllOrNothing ==
    (stage = "openai" /\ CallsService(openai_api_key, cur)) =>
        \A resp \in Responses :
            ~ContractMet(resp) =>
                Enrichment(Enrich(openai_api_key, cur, resp)) = FallbackEnrichment

\* C3: every record that left the enrichment stage and every stored row has
\* a sentiment score in [-1.0, 1.0], whatever number the service returned.
C3_ScoreInRange ==
    /\ \A n \in DOMAIN duck_items :
          "sentiment_score" \in DOMAIN duck_items[n] =>
              ScoreInRange(duck_items[n]["sentiment_score"])
    /\ \A n \in DOMAIN sec_filings : ScoreInRange(sec_filings[n]["sentiment_score"])
    /\ \A n \in DOMAIN news : ScoreInRange(news[n]["sentiment_score"])

\* The rows a successful insertion added for a batch: the last ones.
LastRows(table, n) == SubSeq(table, Len(table) - n + 1, Len(table))

\* A row has every column of the schema, and each column the candidate left
\* out (or set to None) holds '' if it is a text column, "Unknown" if it is
\* the sentiment, 0.0 if it is the score.
Defaulted(row, item, columns, datecol) ==
    /\ DOMAIN row = Range(columns)
    /\ \A c \in Range(columns) \ {datecol} :
          IsNone(Get(item, c)) =>
              row[c] = (IF c = "sentiment" THEN Str("Unknown")
                        ELSE IF c = "sentiment_score" THEN Float(0)
                        ELSE Str(""))
    /\ \A c \in Range(columns) \ {datecol} : ~IsNone(row[c])

\* C4: every row close_spider inserts into sec_filings or news has every
\* column of its schema, defaulted where the candidate omitted it: '' for a
\* text column, "Unknown" for sentiment, 0.0 for sentiment_score.
C4_RowsDefaulted ==
    pc = "done" =>
        /\ report.sec_insert = "ok" =>
              LET batch == SecItems(duck_items)
                  rows == LastRows(sec_filings, Len(batch))
              IN  /\ Len(rows) = Len(batch)
                  /\ \A k \in DOMAIN batch :
                        Defaulted(rows[k], batch[k], sec_columns, "filing_date")
        /\ report.news_insert = "ok" =>
              LET batch == NewsItems(duck_items)
                  rows == LastRows(news, Len(batch))
              IN  /\ Len(rows) = Len(batch)
                  /\ \A k \in DOMAIN batch :
                        Defaulted(rows[k], batch[k], news_columns, "published")

\* Rows were inserted for a filing whose company name is None, for a news
\* entry that skipped enrichment, and for a candidate whose analysis came
\* back with a null sentiment.
C4_Witness ==
    /\ pc = "done"
    /\ report.sec_insert = "ok"
    /\ report.news_insert = "ok"
    /\ \E k \in DOMAIN sec_filings :
          /\ IsNone(SecItems(duck_items)[k]["company_name"])
          /\ sec_filings[k]["company_name"] = Str("")
    /\ \E k \in DOMAIN news :
          /\ EnrichmentFields \cap DOMAIN NewsItems(duck_items)[k] = {}
          /\ news[k]["summary_ai"] = Str("")
          /\ news[k]["sentiment"] = Str("Unknown")
          /\ news[k]["sentiment_score"] = Float(0)
    /\ \E n \in DOMAIN duck_items :
          /\ "sentiment" \in DOMAIN duck_items[n]
          /\ IsNone(duck_items[n]["sentiment"])

\* C5: a report request is issued and a filing candidate is emitted only
\* for index rows whose form is 10-K, 10-Q or 8-K.
C5_OnlyRelevantForms ==
    spider = "sec_filings" =>
        /\ \A i \in pending \cup inflight :
              listing[i].form \in {"10-K", "10-Q", "8-K"}
        /\ \A n \in DOMAIN duck_items :
              duck_items[n]["form"].v \in {"10-K", "10-Q", "8-K"}
        /\ stage # "idle" => cur["form"].v \in {"10-K", "10-Q", "8-K"}

\* The index listed a form 4 and a 10-K, and the run ended with a candidate.
C5_Witness ==
    /\ spider = "sec_filings"
    /\ pc = "done"
    /\ \E i, j \in DOMAIN listing :
          listing[i].form = "4" /\ listing[j].form = "10-K"
    /\ Len(duck_items) = 1

\* C6: store insertion is all-or-nothing per kind and the kinds are
\* isolated: a failed insertion leaves its table as it was, the insertion of
\* the other kind is still carried out, and a successful one adds the whole
\* batch.
C6_InsertionPerKind ==
    [][(pc = "close_duckdb" /\ pc' = "done") =>
          LET sec_batch == SecItems(duck_items)
              news_batch == NewsItems(duck_items)
          IN  /\ report'.sec_insert = "failed" => sec_filings' = sec_filings
              /\ report'.news_insert = "failed" => news' = news
              /\ sec_batch # << >> => report'.sec_insert \in {"ok", "failed"}
              /\ news_batch # << >> => report'.news_insert \in {"ok", "failed"}
              /\ report'.sec_insert = "ok" =>
                    Len(sec_filings') = Len(sec_filings) + Len(sec_batch)
              /\ report'.news_insert = "ok" =>
                    Len(news') = Len(news) + Len(news_batch)]_vars

\* The filing insertion failed and the news batch of the same run is stored.
C6_Witness ==
    /\ pc = "done"
    /\ report.sec_insert = "failed"
    /\ report.news_insert = "ok"
    /\ sec_filings = << >>
    /\ SecItems(duck_items) # << >>
    /\ Len(news) = Len(NewsItems(duck_items))
    /\ Len(news) > 0

C8_ArchiveEqualsStore ==
    pc = "done" =>
        /\ (report.sec_file = "ok" /\ report.sec_insert = "ok") =>
              lake[<< "sec_filings", Timestamp >>]
                  = LastRows(sec_filings, Len(SecItems(duck_items)))
        /\ (report.news_file = "ok" /\ report.news_insert = "ok") =>
              lake[<< "news", Timestamp >>]
                  = LastRows(news, Len(NewsItems(duck_items)))

\* The place in the index / feed of the entry a candidate was built from.
EntryOf(item) ==
    CHOOSE i \in DOMAIN listing :
        IF IsFiling(item)
        THEN item["accession_no"] = Str(listing[i].accessionNumber)
        ELSE item["link"] = Str(NewsLink(i))

\* C9: within one run candidates reach the pipeline stages in listing
\* order: the candidate of an earlier entry comes before that of a later one.
C9_ListingOrder ==
    \A a, b \in DOMAIN duck_items :
        a < b => EntryOf(duck_items[a]) < EntryOf(duck_items[b])

\* The text extracted for a candidate: report_text of a filing,
\* article_text of a news entry.
ExtractedText(item) ==
    IF IsFiling(item) THEN Get(item, "report_text") ELSE Get(item, "article_text")

\* The candidate with the given ordinal was sent to the analysis service.
Analysed(n) == \E k \in DOMAIN calls : calls[k] = n

NumCalls(n) == Cardinality({ k \in DOMAIN calls : calls[k] = n })

\* C11 as stated: exactly one analysis call is made for every candidate
\* that passes the input guard, none for any other, and never more than one.
C11_OneCallPerGuardedCandidate ==
    \A n \in DOMAIN duck_items :
        NumCalls(n) = IF NoMeaningfulText(TextContent(duck_items[n])) THEN 0 ELSE 1

\* C11, amended: with the API key set exactly one analysis call is made for
\* every candidate that passes the input guard, whether the call succeeds or
\* fails; no call is made for a candidate the guard refuses, nor for any
\* candidate when no API key is set; every call is for one candidate.
C11_OneCallPerAnalysedCandidate ==
    /\ \A n \in DOMAIN duck_items :
          NumCalls(n) = IF openai_api_key /\ ~NoMeaningfulText(TextContent(duck_items[n]))
                        THEN 1 ELSE 0
    /\ \A k \in DOMAIN calls : calls[k] \in 1..Emitted
    /\ Len(calls) <= Emitted

\* A candidate whose call failed was called for once and carries the
\* fallback values, next to a candidate the guard refused.
C11_Witness ==
    /\ \E n \in DOMAIN duck_items :
          /\ NumCalls(n) = 1
          /\ Enrichment(duck_items[n]) = FallbackEnrichment
    /\ \E n \in DOMAIN duck_items :
          /\ NoMeaningfulText(TextContent(duck_items[n]))
          /\ NumCalls(n) = 0

\* C12: every record that leaves the enrichment stage carries a sentiment
\* score and a sentiment label, neither absent nor null, on every path.
C12_SentimentAlwaysSet ==
    \A n \in DOMAIN duck_items :
        /\ IsFloat(Get(duck_items[n], "sentiment_score"))
        /\ IsStr(Get(duck_items[n], "sentiment"))

\* A record is in exactly one of the two partitions, the one its form field
\* decides.
InOnePartition(item, sec_part, news_part) ==
    /\ (item \in Range(sec_part)) # (item \in Range(news_part))
    /\ (item \in Range(sec_part)) = ("form" \in DOMAIN item)

\* C13: persistence partitions the buffered records by the presence of the
\* form field alone: every record is in exactly one partition, the sizes of
\* the partitions add up to the size of the buffer, the store stage and the
\* archive stage assign every record the same kind, and the rows written
\* are those of the partitions.
C13_PartitionByForm ==
    LET sec_store == SecItems(duck_items)
        news_store == NewsItems(duck_items)
        sec_archive == ParquetSecItems(parquet_items)
        news_archive == ParquetNewsItems(parquet_items)
    IN  /\ Len(sec_store) + Len(news_store) = Len(duck_items)
        /\ Len(sec_archive) + Len(news_archive) = Len(parquet_items)
        /\ \A n \in DOMAIN duck_items :
              InOnePartition(duck_items[n], sec_store, news_store)
        /\ \A n \in DOMAIN parquet_items :
              /\ InOnePartition(parquet_items[n], sec_archive, news_archive)
              /\ (parquet_items[n] \in Range(sec_archive))
                    = (parquet_items[n] \in Range(sec_store))
        /\ (stage = "idle" /\ Len(duck_items) = Len(parquet_items)) =>
              /\ Len(sec_archive) = Len(sec_store)
              /\ Len(news_archive) = Len(news_store)
        /\ pc = "done" =>
              /\ report.sec_file = "ok" =>
                    Len(lake[<< "sec_filings", Timestamp >>]) = Len(sec_store)
              /\ report.news_file = "ok" =>
                    Len(lake[<< "news", Timestamp >>]) = Len(news_store)
              /\ report.sec_insert = "ok" => Len(sec_filings) = Len(sec_store)
              /\ report.news_insert = "ok" => Len(news) = Len(news_store)

\* A run that buffered a filing and a news record wrote and inserted one row
\* of each kind.
C13_Witness ==
    /\ pc = "done"
    /\ Len(duck_items) = 2
    /\ report = [sec_insert |-> "ok", news_insert |-> "ok",
                 sec_file |-> "ok", news_file |-> "ok"]
    /\ Len(lake[<< "sec_filings", Timestamp >>]) = 1
    /\ Len(lake[<< "news", Timestamp >>]) = 1
    /\ Len(sec_filings) = 1
    /\ Len(news) = 1

\* C16: a failure of the archive write neither prevents nor undoes the
\* store insertion of the run: after close, for a kind whose archive write
\* failed (or was skipped after a failure) the insertion was carried out,
\* and where it succeeded the reconciled rows of the batch are in the table.
C16_ArchiveFailureKeepsStore ==
    (pc = "done" /\ "failed" \in {report.sec_file, report.news_file}) =>
        /\ SecItems(duck_items) # << >> =>
              /\ report.sec_insert \in {"ok", "failed"}
              /\ report.sec_insert = "ok" =>
                    LastRows(sec_filings, Len(SecItems(duck_items)))
                        = SecFrame(SecItems(duck_items))
        /\ NewsItems(duck_items) # << >> =>
              /\ report.news_insert \in {"ok", "failed"}
              /\ report.news_insert = "ok" =>
                    LastRows(news, Len(NewsItems(duck_items)))
                        = NewsFrame(NewsItems(duck_items))

\* The filing archive write failed and the filing rows are in the store.
C16_Witness ==
    /\ pc = "done"
    /\ report.sec_file = "failed"
    /\ report.sec_insert = "ok"
    /\ sec_filings # << >>
    /\ sec_filings = SecFrame(SecItems(duck_items))
    /\ << "sec_filings", Timestamp >> \notin DOMAIN lake

\* C14: archive files are immutable: a file that exists is never modified
\* or overwritten by a later write, and every write creates a new file.
C14_ArchiveImmutable ==
    [][/\ \A f \in DOMAIN lake : f \in DOMAIN lake' /\ lake'[f] = lake[f]
       /\ (pc = "close_parquet" /\ pc' = "close_duckdb") =>
             /\ report'.sec_file = "ok" =>
                   << "sec_filings", Timestamp >> \notin DOMAIN lake
             /\ report'.news_file = "ok" =>
                   << "news", Timestamp >> \notin DOMAIN lake]_vars

\* s is an initial part of t.
IsPrefix(s, t) == Len(s) <= Len(t) /\ SubSeq(t, 1, Len(s)) = s

\* C15: the store is append-only and does not deduplicate: no step deletes
\* or changes a row of sec_filings or news, and a successful insertion adds
\* the whole reconciled batch, so that the row count after it is the count
\* before plus the batch size, also when the rows are already stored.
C15_AppendOnly ==
    [][/\ IsPrefix(sec_filings, sec_filings')
       /\ IsPrefix(news, news')
       /\ (pc = "close_duckdb" /\ pc' = "done") =>
             /\ report'.sec_insert = "ok" =>
                   /\ Len(sec_filings') = Len(sec_filings) + Len(SecItems(duck_items))
                   /\ sec_filings' = sec_filings \o SecFrame(SecItems(duck_items))
             /\ report'.news_insert = "ok" =>
                   /\ Len(news') = Len(news) + Len(NewsItems(duck_items))
                   /\ news' = news \o NewsFrame(NewsItems(duck_items))]_vars

\* Two runs emitted the same filing candidate and the table holds its row
\* twice.
C15_Witness ==
    /\ run = 2
    /\ pc = "done"
    /\ report.sec_insert = "ok"
    /\ Len(SecItems(duck_items)) = 1
    /\ Len(sec_filings) = 2
    /\ sec_filings[1] = sec_filings[2]

\* The companies of the reference table whose ticker is the given one, case
\* apart.
Matching(table, ticker) ==
    { k \in DOMAIN table.companies : Upper(table.companies[k].ticker) = Upper(ticker) }

\* The filing spider was started for a ticker that cannot be resolved: the
\* reference table could not be fetched or has no company with the ticker.
Unresolvable ==
    /\ spider = "sec_filings"
    /\ ticker_arg # ""
    /\ (~company_tickers.ok \/ Matching(company_tickers, ticker_arg) = {})

\* C17: when the ticker has no match in the reference table or the table
\* cannot be fetched, the filing spider fails at construction: no index or
\* report request is issued, no candidate is emitted and nothing is written
\* to the store or the archive.
C17_UnresolvedCrawlsNothing ==
    (Unresolvable /\ pc # "init") =>
        /\ pc = "failed"
        /\ IsNone(cik)
        /\ listing = << >>
        /\ pending = {}
        /\ inflight = {}
        /\ Emitted = 0
        /\ parquet_items = << >>
        /\ sec_filings = << >>
        /\ news = << >>
        /\ lake = NoFiles
        /\ report = NoReport

\* Construction failed for a ticker the fetched table does not list.
C17_Witness ==
    /\ pc = "failed"
    /\ spider = "sec_filings"
    /\ ticker_arg = "zzzz"
    /\ company_tickers.ok
    /\ company_tickers.companies # << >>

\* Other ways of writing the symbols a run is started with.
Casings == TickerArgs \cup {"AAPL", "Aapl", "aAPl", "ZZZZ"}

RECURSIVE Zeros(_)
Zeros(n) == IF n <= 0 THEN "" ELSE "0" \o Zeros(n - 1)

\* C18: for a ticker the reference table lists, once the spider's
\* constructor has called to_cik: to_cik gives every casing
\* of the symbol the same identifier, and that identifier is the one of the
\* company whose ticker is the symbol (case apart, nothing more and nothing
\* less), with zeros on the left up to exactly 10 digits.
C18_ResolutionCaseInsensitive ==
    (/\ spider = "sec_filings"
     /\ pc \in {"start", "failed"}
     /\ ticker_arg # ""
     /\ company_tickers.ok
     /\ Matching(company_tickers, ticker_arg) # {}) =>
        LET matches == Matching(company_tickers, ticker_arg)
        IN  /\ pc # "failed"
            /\ \A t \in Casings :
                  Upper(t) = Upper(ticker_arg) => to_cik(company_tickers, t) = cik
            /\ IsStr(cik)
            /\ Len(cik.v) = 10
            /\ \E k \in matches :
                  LET id == IntToStr(company_tickers.companies[k].cik_str)
                  IN  cik.v = Zeros(10 - Len(id)) \o id

\* The spider started with "aapl" was built with Apple's identifier, which
\* is neither that of AAP nor that of AAPLW.
C18_Witness ==
    /\ spider = "sec_filings"
    /\ pc = "start"
    /\ ticker_arg = "aapl"
    /\ cik = Str("0000320193")
    /\ to_cik(company_tickers, "AAPL") = cik
    /\ to_cik(company_tickers, "AAP") = Str("0001158449")

\* The candidates in the pipelines or in the buffer that were built from
\* the i-th entry of the listing.
IsCandidateOf(item, i) ==
    IF spider = "sec_filings"
    THEN Get(item, "accession_no") = Str(listing[i].accessionNumber)
    ELSE Get(item, "link") = Str(NewsLink(i))

CandidatesOf(i) ==
    Cardinality({ n \in DOMAIN duck_items : IsCandidateOf(duck_items[n], i) })
        + (IF stage \in {"openai", "duckdb"} /\ IsCandidateOf(cur, i) THEN 1 ELSE 0)

\* C19: a report fetch that fails does not abort the other entries: every
\* followed entry whose report was fetched with text has its candidate
\* emitted, no followed entry is left unfetched unless the item ceiling
\* closed the crawl, and the run stores the candidates it emitted.
C19_FetchFailureSkipsOneEntry ==
    spider = "sec_filings" =>
        /\ \A i \in DOMAIN fetched : fetched[i] = "ok" => CandidatesOf(i) = 1
        /\ (pc \in {"close_parquet", "close_duckdb", "done"} /\ itemcount < item_limit) =>
              \A i \in FollowedReports(listing) : fetched[i] # "none"
        /\ (pc = "done" /\ report.sec_insert = "ok") =>
              \A i \in DOMAIN fetched :
                  fetched[i] = "ok" =>
                      \E k \in DOMAIN sec_filings :
                          sec_filings[k]["accession_no"] = Str(listing[i].accessionNumber)

\* The report fetch of the first entry failed, that of a later entry
\* succeeded, and the later entry's row is stored.
C19_Witness ==
    /\ spider = "sec_filings"
    /\ pc = "done"
    /\ report.sec_insert = "ok"
    /\ Len(listing) >= 2
    /\ fetched[1] = "failed"
    /\ \E j \in DOMAIN fetched :
          /\ j > 1
          /\ fetched[j] = "ok"
          /\ \E k \in DOMAIN sec_filings :
                sec_filings[k]["accession_no"] = Str(listing[j].accessionNumber)

C28_IndexThenReportThenCandidate ==
    spider = "sec_filings" =>
        /\ (pending \cup inflight # {} \/ \E i \in DOMAIN fetched : fetched[i] # "none") =>
              /\ pc \in {"crawl", "close_parquet", "close_duckdb", "done"}
              /\ pending \cup inflight \subseteq FollowedReports(listing)
        /\ \A i \in DOMAIN fetched :
              /\ CandidatesOf(i) > 0 => fetched[i] = "ok"
              /\ fetched[i] = "empty" => CandidatesOf(i) = 0
        /\ \A n \in DOMAIN duck_items :
              /\ \E i \in DOMAIN fetched : IsCandidateOf(duck_items[n], i)
              /\ IsStr(Get(duck_items[n], "report_text"))
              /\ Get(duck_items[n], "report_text").v # ""
        /\ stage \in {"openai", "duckdb"} =>
              /\ IsStr(Get(cur, "report_text"))
              /\ Get(cur, "report_text").v # ""

\* One report of a listing gave no text and another one gave text: only
\* the latter has a candidate.
C28_Witness ==
    /\ spider = "sec_filings"
    /\ pc = "done"
    /\ \E i, j \in DOMAIN fetched :
          /\ fetched[i] = "empty"
          /\ fetched[j] = "ok"
          /\ CandidatesOf(i) = 0
          /\ CandidatesOf(j) = 1
          /\ Len(duck_items) = 1

\* The order in which a record passes the item pipelines and leaves them.
StageOrder ==
    { << "idle", "openai" >>, << "openai", "duckdb" >>, << "duckdb", "parquet" >>,
      << "parquet", "scraped" >>, << "scraped", "idle" >> }

\* C29: every candidate passes enrichment, store buffer, archive buffer in
\* this order: a record is appended to a buffer only after
\* OpenAIPipeline.process_item returned for it, it is changed by the
\* enrichment stage only and not after it was buffered, and whenever no
\* record is between the two buffers, at close above all, both buffers hold
\* the same records in the same order.
C29_EnrichThenStoreThenArchive ==
    /\ [](/\ stage = "parquet" => duck_items = Append(parquet_items, cur)
          /\ stage # "parquet" => duck_items = parquet_items
          /\ pc \in {"close_parquet", "close_duckdb", "done"} => stage = "idle")
    /\ [][/\ stage' # stage => << stage, stage' >> \in StageOrder
          /\ (cur' # cur /\ stage # "idle" /\ stage' # "idle") => stage = "openai"
          /\ duck_items' # duck_items =>
                /\ stage = "duckdb"
                /\ duck_items' = Append(duck_items, cur)
          /\ parquet_items' # parquet_items =>
                /\ stage = "parquet"
                /\ parquet_items' = Append(parquet_items, cur)]_vars

\* Two records were enriched by the service and are held by both buffers
\* when the spider has closed.
C29_Witness ==
    /\ pc = "done"
    /\ Len(duck_items) = 2
    /\ duck_items = parquet_items
    /\ Len(calls) = 2
    /\ \A n \in DOMAIN duck_items : Get(duck_items[n], "sentiment") = Str("Positive")

\* A filing candidate whose identifier, form and filing date are set.
Populated(item) ==
    \A c \in {"cik", "ticker", "form", "filing_date"} :
        IsStr(Get(item, c)) /\ Get(item, c).v # ""

\* C27: a filing candidate with its fields populated, once inserted by
\* DuckDBPipeline, is read back from sec_filings with the cik, the form and
\* the filing date it was emitted with, the date as a date; fetch_db gives
\* the same form and date for its ticker.
C27_StoreRoundTrip ==
    (pc = "done" /\ report.sec_insert = "ok") =>
        LET items == SecItems(duck_items)
            rows == LastRows(sec_filings, Len(items))
        IN  \A n \in DOMAIN items :
                Populated(items[n]) =>
                    /\ rows[n]["cik"] = items[n]["cik"]
                    /\ rows[n]["form"] = items[n]["form"]
                    /\ rows[n]["filing_date"] = Date(items[n]["filing_date"].v)
                    /\ \E r \in fetch_db(sec_filings, items[n]["ticker"].v) :
                          /\ r["form"] = items[n]["form"]
                          /\ r["filing_date"] = Date(items[n]["filing_date"].v)

\* A populated 10-K candidate of 2024-11-01 was inserted and is read back.
C27_Witness ==
    /\ pc = "done"
    /\ report.sec_insert = "ok"
    /\ Len(sec_filings) >= 1
    /\ Populated(SecItems(duck_items)[1])
    /\ sec_filings[1]["cik"] = Str("320193")
    /\ sec_filings[1]["form"] = Str("10-K")
    /\ sec_filings[1]["filing_date"] = Date("2024-11-01")
    /\ fetch_db(sec_filings, "AAPL") # {}

\* C24: reaching the item ceiling stops the crawl gracefully: once the
\* engine is closing no download is started, the spider is not closed while
\* a download is in flight or an item is in the pipelines, the run then
\* closes and ends normally, and every candidate emitted, those of the
\* downloads that were in flight included, is in the table unless the
\* insertion itself failed.
C24_GracefulStop ==
    /\ [][closing => inflight' \subseteq inflight]_vars
    /\ [][(pc = "crawl" /\ pc' # "crawl") => (inflight = {} /\ stage = "idle")]_vars
    /\ [](closing => itemcount >= item_limit)
    /\ ((pc = "crawl" /\ closing) ~> pc = "done")
    /\ []((pc = "done" /\ closing) =>
            /\ Emitted = itemcount
            /\ Len(duck_items) = itemcount
            /\ report.sec_insert = "ok" =>
                  Len(sec_filings) = Len(SecItems(duck_items))
            /\ report.news_insert = "ok" => Len(news) = Len(NewsItems(duck_items)))

\* The ceiling of one item was reached while another download was in
\* flight and a third request was waiting: the second candidate was emitted
\* and stored as well, the third request was never sent.
C24_Witness ==
    /\ pc = "done"
    /\ closing
    /\ item_limit = 1
    /\ itemcount = 2
    /\ \E i \in DOMAIN fetched : fetched[i] = "none"
    /\ Len(sec_filings) + Len(news) = 2

\* How often an operation occurs in the connection log.
Count(op) == Cardinality({ k \in DOMAIN con : con[k] = op })

\* C30: in a run whose pipelines were opened the store connection is
\* opened exactly once, by open_spider before anything else is done with
\* it; it is closed exactly once, as the last thing close_spider does, on
\* every path (no item, insertions that succeed, insertions of either or
\* both kinds that fail), and it is not closed before close_spider.
C30_ConnectionOpenedOnceClosedAtEnd ==
    pc \in {"start", "index", "crawl", "close_parquet", "close_duckdb", "done"} =>
        /\ Count("connect") = 1
        /\ con[1] = "connect"
        /\ \A k \in DOMAIN con : con[k] = "close" => k = Len(con)
        /\ Count("close") = (IF pc = "done" THEN 1 ELSE 0)

\* The insertions of both kinds failed and the connection was closed
\* all the same, after the two statements that raised.
C30_Witness ==
    /\ pc = "done"
    /\ report.sec_insert = "failed"
    /\ report.news_insert = "failed"
    /\ con = OpenSpiderOps \o << "execute", "execute", "close" >>

\* C26: at no time are more than CONCURRENT_REQUESTS report / article
\* fetches in flight, however many entries the index or the feed lists.
C26_InFlightWithinMaximum == Cardinality(inflight) <= CONCURRENT_REQUESTS

\* The downloader is full while a request of the listing still waits.
C26_Witness ==
    /\ Len(listing) > CONCURRENT_REQUESTS
    /\ Cardinality(inflight) = CONCURRENT_REQUESTS
    /\ pending # {}

\* The documents the run has sent a fetch for.
Fetches == { f.url : f \in wire }

\* C25: every fetch a run sends (reference table, index / feed, each report
\* / article) was sent after the host's robots.txt was read and allowed
\* its path, and a path robots.txt disallows is neither fetched nor tried
\* again.
C25_RobotsBeforeEveryFetch ==
    /\ \A f \in wire : f.robots = "allowed"
    /\ \A i \in DOMAIN fetched :
          fetched[i] = "excluded" =>
              /\ EntryDocument(i) \notin Fetches
              /\ i \notin pending \cup inflight

\* C21 as stated: run_spider returns ok = False only for a spider whose
\* ticker could not be resolved and for a process the timeout ended.
C21_FailureOnlyUnresolvedOrTimeout ==
    \A k \in DOMAIN results :
        ~results[k].ok => results[k].how \in {"failed", "killed"}

\* C21, amended: run_spider returns ok = False exactly for a spider that
\* could not be built (ticker not resolved), for a store that open_spider
\* could not set up, and for a process the timeout ended; a process in
\* which fetches, the enrichment call, insertions or archive writes failed
\* runs to its end and run_spider returns ok = True for it.
C21_FailureOnlyUnresolvedSetupOrTimeout ==
    /\ \A k \in DOMAIN results :
          /\ results[k].how \in {"done", "failed", "open_failed", "killed"}
          /\ results[k].ok = (results[k].how = "done")
    /\ (pc = "finished") => Len(results) = 2

\* The filing spider's report was fetched and its candidate's insertion
\* and archive write both failed, the news spider's article fetch failed:
\* run_spider returned ok = True for both.
C21_Witness ==
    /\ pc = "finished"
    /\ results[1].ok
    /\ results[1].report.sec_insert = "failed"
    /\ results[1].report.sec_file = "failed"
    /\ results[2].ok
    /\ results[2].report = NoReport
    /\ sec_filings = << >>
    /\ news = << >>

\* C22: one timeout bounds the generate block as a whole: the seconds the
\* two spiders take together never exceed timeout without the run being
\* aborted.
C22_OneTimeoutForBothSpiders == spent + elapsed <= timeout

\* C23: a process the timeout ends is reported as failed, nothing of it is
\* stored from then on, and the rows stored before stay: no step ever
\* takes a row from a table or a file from the archive.
C23_TimeoutKeepsEarlierRows ==
    /\ [](\A k \in DOMAIN results : results[k].how = "killed" => ~results[k].ok)
    /\ [][(pc = "killed" \/ pc' = "killed") =>
              (sec_filings' = sec_filings /\ news' = news /\ lake' = lake)]_vars
    /\ [][pc = "killed" =>
              /\ Len(results') = Len(results) + 1
              /\ ~results'[Len(results')].ok
              /\ results'[Len(results')].how = "killed"]_vars
    /\ [][/\ IsPrefix(sec_filings, sec_filings')
          /\ IsPrefix(news, news')
          /\ \A f \in DOMAIN lake : f \in DOMAIN lake' /\ lake'[f] = lake[f]]_vars

\* The filing spider stored a row; the news spider was ended by the
\* timeout with its candidate still in the buffer: the filing row is there,
\* no news row is.
C23_Witness ==
    /\ pc = "finished"
    /\ results[1].ok
    /\ results[2].how = "killed"
    /\ ~results[2].ok
    /\ Len(sec_filings) = 1
    /\ news = << >>
    /\ spent > timeout

\* The table a spider's candidates go to, and the archive files of its kind.
TableOf(s) == IF s = "sec_filings" THEN sec_filings ELSE news
FilesOf(s) ==
    { f \in DOMAIN lake : f[1] = (IF s = "sec_filings" THEN "sec_filings" ELSE "news") }

\* C31: persistence is one batch at the end of a run: before close_spider
\* no candidate of the running spider is in its table or in an archive
\* file; a process the timeout ends before close_spider leaves none of its
\* buffered candidates behind; a process that closed has inserted all its
\* candidates of the kind or none, and an archive file of the kind holds
\* all of them.
C31_OneBatchAtClose ==
    /\ pc \in {"init", "open", "start", "index", "crawl"} =>
          (TableOf(spider) = << >> /\ FilesOf(spider) = {})
    /\ (pc = "killed" /\ report = NoReport) =>
          (TableOf(spider) = << >> /\ FilesOf(spider) = {})
    /\ \A k \in DOMAIN results :
          (results[k].how = "killed" /\ results[k].report = NoReport) =>
              LET s == IF k = 1 THEN "sec_filings" ELSE "yahoo_news_rss"
              IN  (s # spider \/ pc = "finished") =>
                      (TableOf(s) = << >> /\ FilesOf(s) = {})
    /\ pc = "done" =>
          /\ Len(TableOf(spider)) \in {0, Len(duck_items)}
          /\ \A f \in FilesOf(spider) : Len(lake[f]) = Len(parquet_items)

\* The timeout ended a process that held two candidates in its buffers:
\* neither is in the table or in the archive.
C31_Witness ==
    /\ pc = "killed"
    /\ report = NoReport
    /\ Len(duck_items) = 2
    /\ Len(parquet_items) = 2
    /\ TableOf(spider) = << >>
    /\ FilesOf(spider) = {}

\* C32: every row a filing or news run persists carries the ticker in upper
\* case, however the spider was constructed (ticker only, cik only, cik
\* with a ticker in any casing), so the dashboard's read filtered by the
\* upper-cased ticker returns every row persisted for that ticker.
C32_RowsCarryUpperCaseTicker ==
    /\ \A k \in DOMAIN sec_filings :
          /\ sec_filings[k]["ticker"] = Str(Upper(sec_filings[k]["ticker"].v))
          /\ ticker_arg # "" => sec_filings[k]["ticker"] = Str(Upper(ticker_arg))
    /\ \A k \in DOMAIN news :
          /\ news[k]["ticker"] = Str(Upper(news[k]["ticker"].v))
          /\ ticker_arg # "" => news[k]["ticker"] = Str(Upper(ticker_arg))
    /\ ticker_arg # "" =>
          Cardinality(fetch_db(sec_filings, Upper(ticker_arg))) =
              Cardinality({ sec_filings[k]["report_url"] : k \in DOMAIN sec_filings })

=============================================================================
